---- MODULE Spec2Model ----
(***************************************************************************)
(* A model of relationship_animation.py: the falling-hearts terminal       *)
(* animation.  main() is a state machine over its program positions; the   *)
(* pure helpers (hearts_overlap, get_size, center_text, draw_frame, the    *)
(* spawn-chance ramp) are operators computed as the code computes them.    *)
(*                                                                         *)
(* Numbers.  Python floats appear in three roles and are modelled so:      *)
(*  - Heart.y and Heart.speed are IEEE-754 doubles.  A double d with       *)
(*    0 <= d < 2^31 that is a multiple of 2^-57 is the record              *)
(*    [i, hi, lo] with d = i + (hi * 2^28 + lo) / 2^57; AddDouble rounds   *)
(*    the exact sum to nearest-even at the precision of its binade, as     *)
(*    the hardware does.  A negative fractional y (draw_frame accepts any  *)
(*    heart) has i < 0 and the fraction counted upwards from i.            *)
(*  - Clock readings (time.perf_counter) and durations are exact           *)
(*    multiples of 1/UnitsPerSecond seconds.                               *)
(*  - Probabilities are exact rationals with denominator ProbDen.          *)
(* Strings are sequences of characters; "ESC" stands for \x1b and "uXXXX"  *)
(* for the code point U+XXXX.                                              *)
(***************************************************************************)
EXTENDS Integers, Sequences, FiniteSets, TLC

VARIABLES
    pc,                    \* position of main(): see Init and the actions
    term,                  \* the terminal: altScreen, cursorHidden, and how often
                           \* the teardown sequence and the exit message were written
    exc,                   \* exception that ended main ("none" if none)
    raisedAt,              \* pc at which that exception was raised
    clock,                 \* time.perf_counter(), in time units
    now, last, intro_start, anim_start, msg_index,
    hearts,                \* the live list
    width, height,         \* main's get_size() of this tick
    spawn_chance_per_col,  \* numerator over ProbDen
    current_msg, next_msg_time,
    ticks,                 \* main-loop iterations started
    gone,                  \* the hearts the cull of this iteration removed
    phases,                \* phases run so far in this iteration, in order
    arg, res, called       \* input, result and call flag of the pure-function specs

mainVars == <<pc, term, exc, raisedAt,
              clock, now, last, intro_start, anim_start, msg_index, hearts,
              width, height, spawn_chance_per_col, current_msg, next_msg_time,
              ticks, gone, phases>>
pureVars == <<arg, res, called>>
vars == <<mainVars, pureVars>>

Min(a, b) == IF a < b THEN a ELSE b
Max(a, b) == IF a > b THEN a ELSE b
range(n) == 0 .. (n - 1)
Spaces(n) == [i \in 1..n |-> " "]

(***************************************************************************)
(* Bounds of the exploration.                                              *)
(***************************************************************************)
MaxTicks == 10
FallTicks == 34
MaxHearts == 2
MaxBox == 2
MaxDrawn == 2
MaxMaskRows == 4
MaxSide == 11
TwinkleTicks == 13
MaxWidth == 130
DropTicks == 304

(***************************************************************************)
(* ANSI helpers, palette, glyph pools, messages (lines 43-70, 163-173).    *)
(***************************************************************************)
RESET == <<"ESC", "[", "0", "m">>
BOLD == <<"ESC", "[", "1", "m">>
FAINT == <<"ESC", "[", "2", "m">>
PINKS ==
  << <<"ESC", "[", "3", "8", ";", "5", ";", "1", "9", "8", "m">>,
     <<"ESC", "[", "3", "8", ";", "5", ";", "1", "9", "9", "m">>,
     <<"ESC", "[", "3", "8", ";", "5", ";", "2", "0", "0", "m">>,
     <<"ESC", "[", "3", "8", ";", "5", ";", "2", "0", "5", "m">>,
     <<"ESC", "[", "3", "8", ";", "5", ";", "2", "0", "6", "m">>,
     <<"ESC", "[", "3", "8", ";", "5", ";", "2", "1", "3", "m">>,
     <<"ESC", "[", "3", "8", ";", "5", ";", "2", "1", "9", "m">> >>
HEARTS_SMALL == << <<"u2661">>, <<"u2765">>, <<"u10E6">> >>
HEARTS_MED == << <<"u2665">> >>
MESSAGES ==
  << <<"C", "o", "m", "p", "i", "l", "i", "n", "g", " ", "f", "e", "e", "l", "i", "n", "g", "s", ".", ".", ".">>,
     <<"D", "e", "p", "l", "o", "y", "i", "n", "g", " ", "e", "m", "o", "t", "i", "o", "n", "s", ".", ".", ".">>,
     <<"F", "l", "i", "r", "t", "i", "n", "g", "A", "P", "I", " ", "i", "n", "i", "t", "i", "a", "l", "i", "z", "i", "n", "g", ".", ".", ".">>,
     <<"A", "u", "t", "h", "e", "n", "t", "i", "c", "a", "t", "i", "n", "g", " ", "c", "h", "e", "m", "i", "s", "t", "r", "y", ".", ".", ".">>,
     <<"E", "n", "c", "r", "y", "p", "t", "i", "n", "g", " ", "h", "e", "a", "r", "t", "b", "e", "a", "t", "s", ".", ".", ".">>,
     <<"L", "o", "a", "d", "i", "n", "g", " ", "l", "o", "v", "e", " ", "l", "a", "n", "g", "u", "a", "g", "e", " ", "p", "a", "c", "k", ".", ".", ".">>,
     <<"S", "p", "i", "n", "n", "i", "n", "g", " ", "u", "p", " ", "b", "u", "t", "t", "e", "r", "f", "l", "i", "e", "s", ".", ".", ".">>,
     <<"W", "a", "r", "m", "i", "n", "g", " ", "u", "p", " ", "s", "m", "i", "l", "e", " ", "e", "n", "g", "i", "n", "e", ".", ".", ".">>,
     <<"N", "e", "g", "o", "t", "i", "a", "t", "i", "n", "g", " ", "d", "a", "t", "e", " ", "p", "r", "o", "t", "o", "c", "o", "l", ".", ".", ".">> >>

(***************************************************************************)
(* Time and probability scales; main's parameters (lines 284-296, 304).    *)
(***************************************************************************)
fps == 14
UnitsPerSecond == fps * 10
frame_time == UnitsPerSecond \div fps
intro_total == 7 * UnitsPerSecond
ramp_duration == 10 * UnitsPerSecond
msg_duration == (24 * UnitsPerSecond) \div 10
ProbDen == 100 * ramp_duration
target_spawn_chance_per_col == (3 * ProbDen) \div 100

(***************************************************************************)
(* Doubles.                                                                *)
(***************************************************************************)
LoMod == 2^28
HiMod == 2^29

Dbl(i, hi, lo) == [i |-> i, hi |-> hi, lo |-> lo]
Whole(n) == Dbl(n, 0, 0)

\* The doubles nearest to the decimal literals, as Python reads them.
D_0_06 == Dbl(0, 32212254, 193273528)
D_0_1 == Dbl(0, 53687091, 53687092)
D_0_14 == Dbl(0, 75161927, 182536112)
D_0_2 == Dbl(0, 107374182, 107374184)
D_0_28 == Dbl(0, 150323855, 96636768)

RECURSIVE Log2(_)
Log2(n) == IF n <= 1 THEN 0 ELSE 1 + Log2(n \div 2)

RECURSIVE Pow2(_)
Pow2(k) == IF k = 0 THEN 1 ELSE 2 * Pow2(k - 1)

\* a + b in real arithmetic (no rounding), for a, b >= 0.
ExactAdd(a, b) ==
    LET lo == a.lo + b.lo
        hi == a.hi + b.hi + (lo \div LoMod)
    IN  Dbl(a.i + b.i + (hi \div HiMod), hi % HiMod, lo % LoMod)

\* The unit in the last place of a double in [1, 2^31), in units of 2^-57.
Ulp(d) == Pow2(Log2(d.i) + 5)

\* Round a real >= 1 to the nearest double, ties to even.
RoundDouble(s) ==
    LET m == Ulp(s)
        r == s.lo % m
        base == s.lo - r
        up == (2 * r > m) \/ (2 * r = m /\ (base \div m) % 2 = 1)
        lo == IF up THEN base + m ELSE base
        hi == s.hi + (lo \div LoMod)
    IN  Dbl(s.i + (hi \div HiMod), hi % HiMod, lo % LoMod)

\* Python's a + b on doubles a >= 1, b >= 0.
AddDouble(a, b) == RoundDouble(ExactAdd(a, b))

\* Python's int(d): truncation toward zero.
IntOf(d) == IF d.i < 0 /\ (d.hi # 0 \/ d.lo # 0) THEN d.i + 1 ELSE d.i

\* d < n for a double d and an integer n.
LessThanInt(d, n) == d.i < n

(***************************************************************************)
(* Exact arithmetic for heart_mask.  The sample coordinates are rationals   *)
(* with small numerators and denominators; the sign of the heart polynomial *)
(* is decided on integers of about 160 bits, kept as a sign s and a         *)
(* magnitude m: a sequence of limbs in base Base, least significant first,  *)
(* without leading zeros.                                                   *)
(***************************************************************************)
Base == 10 ^ 4

Abs(n) == IF n < 0 THEN -n ELSE n
Sign(n) == IF n < 0 THEN -1 ELSE 1

RECURSIVE Gcd(_, _)
Gcd(a, b) == IF b = 0 THEN a ELSE Gcd(b, a % b)

\* the fraction n / d (d > 0) in lowest terms
Rat(n, d) == LET g == Gcd(Abs(n), d) IN <<n \div g, d \div g>>
RatMul(p, q) == Rat(p[1] * q[1], p[2] * q[2])

\* the magnitude of a small integer n >= 0
RECURSIVE Mag(_)
Mag(n) == IF n = 0 THEN <<>> ELSE <<n % Base>> \o Mag(n \div Base)

RECURSIVE MulCarry(_, _, _)
MulCarry(m, k, carry) ==
    IF m = <<>> THEN Mag(carry)
    ELSE LET t == Head(m) * k + carry
         IN  <<t % Base>> \o MulCarry(Tail(m), k, t \div Base)

\* m * k for a small integer 0 <= k < 2^17
MulSmall(m, k) == IF k = 0 THEN <<>> ELSE MulCarry(m, k, 0)

RECURSIVE AddCarry(_, _, _)
AddCarry(m, n, carry) ==
    IF m = <<>> /\ n = <<>> THEN Mag(carry)
    ELSE LET t == (IF m = <<>> THEN 0 ELSE Head(m)) + (IF n = <<>> THEN 0 ELSE Head(n))
                    + carry
         IN  <<t % Base>> \o AddCarry(IF m = <<>> THEN m ELSE Tail(m),
                                      IF n = <<>> THEN n ELSE Tail(n), t \div Base)

AddMag(m, n) == AddCarry(m, n, 0)

RECURSIVE Strip(_)
Strip(m) ==
    IF m # <<>> /\ m[Len(m)] = 0 THEN Strip(SubSeq(m, 1, Len(m) - 1)) ELSE m

\* -1, 0, 1 as m < n, m = n, m > n
RECURSIVE CmpFrom(_, _, _)
CmpFrom(m, n, i) ==
    IF i = 0 THEN 0
    ELSE IF m[i] < n[i] THEN -1
    ELSE IF m[i] > n[i] THEN 1
    ELSE CmpFrom(m, n, i - 1)

CmpMag(m, n) ==
    IF Len(m) < Len(n) THEN -1
    ELSE IF Len(m) > Len(n) THEN 1
    ELSE CmpFrom(m, n, Len(m))

RECURSIVE SubBorrow(_, _, _)
SubBorrow(m, n, borrow) ==
    IF m = <<>> THEN <<>>
    ELSE LET t == Head(m) - (IF n = <<>> THEN 0 ELSE Head(n)) - borrow
         IN  <<(t + Base) % Base>>
                \o SubBorrow(Tail(m), IF n = <<>> THEN n ELSE Tail(n),
                             IF t < 0 THEN 1 ELSE 0)

\* m - n for m >= n
SubMag(m, n) == Strip(SubBorrow(m, n, 0))

RECURSIVE MulMag(_, _)
MulMag(m, n) ==
    IF m = <<>> \/ n = <<>> THEN <<>>
    ELSE LET rest == MulMag(Tail(m), n)
         IN  AddMag(MulSmall(n, Head(m)), IF rest = <<>> THEN rest ELSE <<0>> \o rest)

Big(s, m) == [s |-> s, m |-> m]
BigAdd(p, q) ==
    IF p.s = q.s THEN Big(p.s, AddMag(p.m, q.m))
    ELSE IF CmpMag(p.m, q.m) >= 0 THEN Big(p.s, SubMag(p.m, q.m))
    ELSE Big(q.s, SubMag(q.m, p.m))
BigNeg(p) == Big(-p.s, p.m)
BigMul(p, q) == Big(p.s * q.s, MulMag(p.m, q.m))
BigScale(p, k) == Big(p.s * Sign(k), MulSmall(p.m, Abs(k)))
\* p <= q
BigLeq(p, q) == LET d == BigAdd(q, BigNeg(p)) IN d.m = <<>> \/ d.s = 1

(***************************************************************************)
(* heart_mask (lines 75-114).                                              *)
(***************************************************************************)
\* lines 82-91, as fractions
x_scale(wid) == IF wid <= 9 THEN <<118, 100>> ELSE <<112, 100>>
y_scale == <<1, 1>>
shrink(wid) == IF wid <= 7 THEN <<90, 100>> ELSE <<95, 100>>
base_threshold_below_minimum(wid) == <<-200, 100>>
base_threshold(wid) == IF wid <= 7 THEN <<1, 100>> ELSE <<0, 100>>
ss(wid) == IF wid <= 9 THEN 4 ELSE 3

\* lines 101-106: -1 + 2 * fc (or 1 - 2 * fr, negated) for cell index i,
\* subsample index si, on n cells
Centered(i, si, n, s) ==
    LET span == Max(1, n - 1)
    IN  Rat(2 * s * i + 2 * si + 1 - s * span, s * span)

\* lines 98-108: is the subsample (sr, sc) of cell (row, col) inside the heart
inside(wid, hgt, row, col, sr, sc) ==
    LET s == ss(wid)
        x == RatMul(Centered(col, sc, wid, s), RatMul(x_scale(wid), shrink(wid)))
        ny == Centered(row, sr, hgt, s)
        y == RatMul(<<-ny[1], ny[2]>>, RatMul(y_scale, shrink(wid)))
        a == x[1]
        b == x[2]
        c == y[1]
        d == y[2]
        one == Big(1, <<1>>)
        a2 == BigScale(BigScale(one, a), a)
        b2 == BigScale(BigScale(one, b), b)
        c2 == BigScale(BigScale(one, c), c)
        d2 == BigScale(BigScale(one, d), d)
        q == BigMul(b2, d2)
        \* v = x * x + y * y - 1.0 = n / q
        n == BigAdd(BigAdd(BigMul(a2, d2), BigMul(c2, b2)), BigNeg(q))
        n3 == BigMul(BigMul(n, n), n)
        q3 == BigMul(BigMul(q, q), q)
        \* x * x * (y * y * y) = w / q3
        w == BigMul(BigMul(a2, BigScale(c2, c)), BigMul(BigMul(b2, b2), BigScale(d2, d)))
        t == base_threshold(wid)
    IN  \* v * v * v - x * x * (y * y * y) <= base_threshold, times t[2] * q3
        BigLeq(BigScale(BigAdd(n3, BigNeg(w)), t[2]), BigScale(q3, t[1]))

\* lines 94-112
inside_count(wid, hgt, row, col) ==
    Cardinality({ sub \in range(ss(wid)) \X range(ss(wid)) :
                    inside(wid, hgt, row, col, sub[1], sub[2]) })

\* line 111: inside_count / float(ss * ss)
coverage(wid, hgt, row, col) ==
    <<inside_count(wid, hgt, row, col), ss(wid) * ss(wid)>>

heart_mask(wid, hgt) ==
    [row \in 1..hgt |-> [col \in 1..wid |-> coverage(wid, hgt, row - 1, col - 1)]]

(***************************************************************************)
(* mask_to_sprite (lines 116-152).  A mask is a sequence of rows of         *)
(* coverages; a coverage is the fraction <<n, d>> = n / d.                  *)
(***************************************************************************)
fill_char == "u2022"
mid_char == "u00B7"
outline_char == "u00B7"

\* lines 126-136
char_from_coverage(cov, mode) ==
    IF mode = "outline"
    THEN IF 4 * cov[1] >= cov[2] /\ 4 * cov[1] <= 3 * cov[2] THEN outline_char ELSE " "
    ELSE IF 100 * cov[1] >= 66 * cov[2] THEN fill_char
         ELSE IF 10 * cov[1] >= 3 * cov[2] THEN mid_char
         ELSE " "

\* str.rstrip on a row of glyphs and spaces
RECURSIVE rstrip(_)
rstrip(line) ==
    IF line # <<>> /\ line[Len(line)] = " " THEN rstrip(SubSeq(line, 1, Len(line) - 1))
    ELSE line

\* row.strip() == ""
IsBlank(line) == \A i \in 1..Len(line) : line[i] = " "

\* lines 145-146
RECURSIVE PopLeading(_)
PopLeading(rows) ==
    IF rows # <<>> /\ IsBlank(rows[1]) THEN PopLeading(Tail(rows)) ELSE rows

\* lines 147-148
RECURSIVE PopTrailing(_)
PopTrailing(rows) ==
    IF rows # <<>> /\ IsBlank(rows[Len(rows)])
    THEN PopTrailing(SubSeq(rows, 1, Len(rows) - 1))
    ELSE rows

RECURSIVE MaxLen(_)
MaxLen(rows) == IF rows = <<>> THEN 0 ELSE Max(Len(Head(rows)), MaxLen(Tail(rows)))

\* lines 138-143: one stripped row of glyphs per mask row
mask_rows(mask, style) ==
    LET h == Len(mask)
        w == IF h > 0 THEN Len(mask[1]) ELSE 0
    IN  [r \in 1..h |-> rstrip([c \in 1..w |-> char_from_coverage(mask[r][c], style)])]

mask_to_sprite_ragged(mask, style) == PopTrailing(PopLeading(mask_rows(mask, style)))
mask_to_sprite(mask, style) ==
    LET rows == PopTrailing(PopLeading(mask_rows(mask, style)))
        maxw == MaxLen(rows)
    IN  [i \in 1..Len(rows) |-> rows[i] \o Spaces(maxw - Len(rows[i]))]

\* make_heart_sprite (lines 154-162)
make_heart_sprite(size, style) ==
    LET dims == IF size = "small" THEN <<9, 8>>
                ELSE IF size = "medium" THEN <<13, 11>>
                ELSE <<17, 15>>
    IN  mask_to_sprite(heart_mask(dims[1], dims[2]), style)

(***************************************************************************)
(* Heart (lines 175-190).  born, age, shown and exact are history fields   *)
(* the program does not have: the iteration that spawned the heart, the    *)
(* number of times it was stepped, the number of frames it was drawn in,   *)
(* and 2 + age * speed in real arithmetic.                                 *)
(***************************************************************************)
Heart(x, y, color, speed, size, style, sprite, w, h, twinkle_phase, twinkle_next) ==
    [x |-> x, y |-> y, color |-> color, speed |-> speed, size |-> size,
     style |-> style, sprite |-> sprite, w |-> w, h |-> h,
     twinkle_phase |-> twinkle_phase, twinkle_next |-> twinkle_next,
     born |-> 0, age |-> 0, shown |-> 0, exact |-> y]

\* Heart.step and line 333: self.y += self.speed
step_twice(h) == [h EXCEPT !.y = AddDouble(AddDouble(h.y, h.speed), h.speed)]
step_spends_speed(h) == [h EXCEPT !.y = AddDouble(h.y, h.speed), !.speed = Whole(0)]
step(h) == [h EXCEPT !.y = AddDouble(h.y, h.speed)]

\* hearts_overlap (lines 193-207); x is an int, so int(h.x) is h.x.
hearts_overlap_exclusive(h1, h2) ==
    LET h1_left == h1.x - (h1.w \div 2)
        h1_right == h1_left + h1.w
        h1_top == IntOf(h1.y)
        h1_bottom == h1_top + h1.h
        h2_left == h2.x - (h2.w \div 2)
        h2_right == h2_left + h2.w
        h2_top == IntOf(h2.y)
        h2_bottom == h2_top + h2.h
    IN  ~(h1_right <= h2_left \/ h1_left >= h2_right \/
          h1_bottom <= h2_top \/ h1_top >= h2_bottom)
hearts_overlap_onesided(h1, h2) ==
    LET h1_left == h1.x - (h1.w \div 2)
        h1_right == h1_left + h1.w
        h1_top == IntOf(h1.y)
        h1_bottom == h1_top + h1.h
        h2_left == h2.x - (h2.w \div 2)
        h2_top == IntOf(h2.y)
    IN  ~(h1_right < h2_left \/ h1_bottom < h2_top)
hearts_overlap(h1, h2) ==
    LET h1_left == h1.x - (h1.w \div 2)
        h1_right == h1_left + h1.w
        h1_top == IntOf(h1.y)
        h1_bottom == h1_top + h1.h
        h2_left == h2.x - (h2.w \div 2)
        h2_right == h2_left + h2.w
        h2_top == IntOf(h2.y)
        h2_bottom == h2_top + h2.h
    IN  ~(h1_right < h2_left \/ h1_left > h2_right \/
          h1_bottom < h2_top \/ h1_top > h2_bottom)

\* get_size (lines 210-213) on what shutil.get_terminal_size reports.
get_size(size) == <<Max(20, size[1]), Max(10, size[2])>>

\* center_text (lines 216-220)
center_text(text, w) ==
    IF Len(text) >= w THEN SubSeq(text, 1, w)
    ELSE Spaces((w - Len(text)) \div 2) \o text

(***************************************************************************)
(* draw_frame (lines 223-278).  The buffer is a function from rows to a    *)
(* function from columns to a cell; a cell is a string.                    *)
(***************************************************************************)
BlankBuffer(w, h) == [r \in range(h) |-> [c \in range(w) |-> <<" ">>]]

\* lines 239-243
ansi_style(twinkle_phase) ==
    IF twinkle_phase = 1 THEN BOLD
    ELSE IF twinkle_phase = 2 THEN FAINT
    ELSE <<>>

\* line 247: the rows a sprite row may be written to
RowVisible_no_hud(screen_r, h) == ~(screen_r < 0 \/ screen_r >= h)
RowVisible(screen_r, h) == ~(screen_r < 2 \/ screen_r >= h)

\* line 255
ColVisible_left_only(screen_c, w) == 0 <= screen_c
ColVisible(screen_c, w) == 0 <= screen_c /\ screen_c < w

\* lines 234-256: the buffer cells the loops assign for one heart, as
\* <<screen_r, screen_c>> (line 256)
HeartWrites(h, w, hgt) ==
    LET top == IntOf(h.y)
        left == h.x - (h.w \div 2)
    IN  IF top >= hgt THEN {}
        ELSE { wr \in { <<top + r, left + c>> : r \in range(h.h), c \in range(h.w) } :
                 /\ RowVisible(wr[1], hgt)
                 /\ h.sprite[wr[1] - top + 1][wr[2] - left + 1] # " "
                 /\ ColVisible(wr[2], w) }

\* lines 244-251: the sprite cells the loops read for one heart, as <<r, c>>
\* (h.sprite[r] of line 249, row_str[c] of line 251)
SpriteReads(h, hgt) ==
    LET top == IntOf(h.y)
    IN  IF top >= hgt THEN {}
        ELSE { <<r, c>> : r \in { q \in range(h.h) : RowVisible(top + q, hgt) },
                          c \in range(h.w) }

\* lines 234-256: one heart placed into the buffer
PlaceHeart(buffer, h, w, hgt) ==
    LET top == IntOf(h.y)
        left == h.x - (h.w \div 2)
    IN  [screen_r \in range(hgt) |-> [screen_c \in range(w) |->
            IF <<screen_r, screen_c>> \in HeartWrites(h, w, hgt)
            THEN ansi_style(h.twinkle_phase) \o h.color
                     \o <<h.sprite[screen_r - top + 1][screen_c - left + 1]>> \o RESET
            ELSE buffer[screen_r][screen_c]]]

\* line 233: for h in hearts, in list order (a later heart overwrites)
RECURSIVE PlaceHearts(_, _, _, _)
PlaceHearts(buffer, hs, w, hgt) ==
    IF hs = <<>> THEN buffer
    ELSE PlaceHearts(PlaceHeart(buffer, Head(hs), w, hgt), Tail(hs), w, hgt)

title ==
    <<"R", "e", "l", "a", "t", "i", "o", "n", "s", "h", "i", "p", " ", "M", "o", "d",
      "u", "l", "e", ":", " ", "R", "a", "i", "n", " ", "o", "f", " ", "H", "e", "a",
      "r", "t", "s">>
exit_hint ==
    <<"P", "r", "e", "s", "s", " ", "C", "t", "r", "l", "+", "C", " ", "t", "o", " ",
      "e", "x", "i", "t">>

\* lines 259-262
hud_text(w) ==
    LET full == <<"ESC", "[", "9", "6", "m">> \o title \o RESET
                    \o <<" ", " ", "|", " ", " ">> \o exit_hint
        text == IF Len(title) + 22 < w THEN full ELSE exit_hint
    IN  SubSeq(text, 1, Min(w, Len(text)))

\* lines 263-264, 271-272: for i, ch in enumerate(text): buffer[line][i] = ch
Overlay(buffer, line, text) ==
    [buffer EXCEPT ![line] =
        [c \in DOMAIN buffer[line] |-> IF c < Len(text) THEN <<text[c + 1]>> ELSE @[c]]]

\* lines 263-264: the buffer cells the HUD loop assigns
HudWrites(w) == { <<0, i>> : i \in range(Len(hud_text(w))) }

\* lines 267-272; None and "" are both falsy: the model writes both as <<>>
msg_line_text(msg, w) ==
    IF msg = <<>> THEN <<>>
    ELSE LET centered == center_text(<<"ESC", "[", "9", "5", "m">> \o msg \o RESET, w)
         IN  SubSeq(centered, 1, Min(w, Len(centered)))

\* lines 271-272: the buffer cells the message loop assigns
MsgWrites(msg, w) == { <<1, i>> : i \in range(Len(msg_line_text(msg, w))) }

\* The buffer after the hearts are placed, before the HUD rows are written.
placed_hearts(hs, size) ==
    LET sz == get_size(size)
    IN  PlaceHearts(BlankBuffer(sz[1], sz[2]), hs, sz[1], sz[2])

\* The buffer as written to the terminal.
draw_frame(hs, msg, size) ==
    LET sz == get_size(size)
    IN  Overlay(Overlay(placed_hearts(hs, size), 0, hud_text(sz[1])),
                1, msg_line_text(msg, sz[1]))

(***************************************************************************)
(* main (lines 281-426): the spawn planner.                                *)
(***************************************************************************)
\* lines 343-348: the ramp, on elapsed = now - anim_start
SpawnChance_unclamped(elapsed) ==
    (target_spawn_chance_per_col * elapsed) \div ramp_duration
SpawnChance(elapsed) ==
    IF ramp_duration > 0
    THEN Min(target_spawn_chance_per_col,
             (target_spawn_chance_per_col * elapsed) \div ramp_duration)
    ELSE target_spawn_chance_per_col

\* line 352: random.random() < spawn_chance_per_col, r the draw's numerator
Spawns_le(r, chance) == r <= chance
Spawns(r, chance) == r < chance

\* random.choice(pool) on a draw k >= 1
Choice(pool, k) == pool[((k - 1) % Len(pool)) + 1]

\* lines 354-394: the candidate of column col, from the random outcomes rnd
NewHeart_stepped(col, t, tk, rnd) ==
    LET ch == IF rnd.size = "small"
              THEN Choice(IF rnd.style = "outline" THEN HEARTS_SMALL ELSE HEARTS_MED,
                          rnd.glyph)
              ELSE Choice(HEARTS_MED, rnd.glyph)
    IN  [Heart(col, AddDouble(Whole(2), rnd.speed), Choice(PINKS, rnd.color), rnd.speed,
               rnd.size, rnd.style, <<ch>>, Len(ch), 1, rnd.phase, t + rnd.tnext)
            EXCEPT !.born = tk, !.exact = Whole(2)]
NewHeart(col, t, tk, rnd) ==
    LET ch == IF rnd.size = "small"
              THEN Choice(IF rnd.style = "outline" THEN HEARTS_SMALL ELSE HEARTS_MED,
                          rnd.glyph)
              ELSE Choice(HEARTS_MED, rnd.glyph)
        sprite == <<ch>>
        hgt == 1
        wid == Len(ch)
    IN  [Heart(col, Whole(2), Choice(PINKS, rnd.color), rnd.speed, rnd.size, rnd.style,
               sprite, wid, hgt, rnd.phase, t + rnd.tnext)
            EXCEPT !.born = tk]

\* lines 397-401: does the candidate collide with a live heart
Collision_same_row(new_heart, hs) ==
    \E i \in 1..Len(hs) :
        hearts_overlap(new_heart, hs[i]) /\ IntOf(hs[i].y) = IntOf(new_heart.y)
Collision_skips_pass(new_heart, hs) ==
    \E i \in 1..Len(hs) : hs[i].born # new_heart.born /\ hearts_overlap(new_heart, hs[i])
Collision(new_heart, hs) ==
    \E i \in 1..Len(hs) : hearts_overlap(new_heart, hs[i])

\* lines 351-405: for col in range(width), from column col on.  draws[c] is
\* the draw of column c and rnds[c] the random outcomes of its candidate.
RECURSIVE SpawnPass_evicts(_, _, _, _, _, _, _, _)
SpawnPass_evicts(hs, col, w, chance, draws, rnds, t, tk) ==
    IF col >= w THEN hs
    ELSE LET new_heart == NewHeart(col, t, tk, rnds[col])
             next == IF Spawns(draws[col], chance)
                     THEN Append(SelectSeq(hs, LAMBDA e : ~hearts_overlap(new_heart, e)),
                                 new_heart)
                     ELSE hs
         IN  SpawnPass_evicts(next, col + 1, w, chance, draws, rnds, t, tk)
RECURSIVE SpawnPass(_, _, _, _, _, _, _, _)
SpawnPass(hs, col, w, chance, draws, rnds, t, tk) ==
    IF col >= w THEN hs
    ELSE LET new_heart == NewHeart(col, t, tk, rnds[col])
             next == IF Spawns(draws[col], chance) /\ ~Collision(new_heart, hs)
                     THEN Append(hs, new_heart)
                     ELSE hs
         IN  SpawnPass(next, col + 1, w, chance, draws, rnds, t, tk)

(***************************************************************************)
(* The outcomes explored: terminal sizes, random draws, slow frames.       *)
(***************************************************************************)
\* what shutil.get_terminal_size reports (the first is below the minimum)
TermSizes == { <<10, 5>>, <<40, 20>> }

\* random.random() in a lucky column: numerators over ProbDen (the smallest
\* draw, and the target chance, which no chance of the ramp exceeds)
DrawValues == {0, target_spawn_chance_per_col}

\* the columns whose draw ranges over DrawValues; every other column draws
\* ProbDen - 1
LuckyCols == {0, 1, 2, 39}
FallCols == {10}

\* the random outcomes of one candidate (size, style, glyph, speed, color,
\* twinkle phase, delay to the first twinkle): speeds lie in the ranges of
\* lines 378 and 380, delays in that of line 393
SmallFilled ==
    [size |-> "small", style |-> "filled", glyph |-> 1, speed |-> D_0_1,
     color |-> 1, phase |-> 0, tnext |-> UnitsPerSecond \div 10]
SmallOutline ==
    [size |-> "small", style |-> "outline", glyph |-> 2, speed |-> D_0_14,
     color |-> 2, phase |-> 1, tnext |-> (7 * UnitsPerSecond) \div 10]
MediumFilled ==
    [size |-> "medium", style |-> "filled", glyph |-> 1, speed |-> D_0_2,
     color |-> 7, phase |-> 2, tnext |-> UnitsPerSecond \div 10]
MediumOutline ==
    [size |-> "medium", style |-> "outline", glyph |-> 1, speed |-> D_0_28,
     color |-> 4, phase |-> 0, tnext |-> (7 * UnitsPerSecond) \div 10]
Slowest ==
    [size |-> "small", style |-> "filled", glyph |-> 1, speed |-> D_0_06,
     color |-> 1, phase |-> 0, tnext |-> UnitsPerSecond \div 10]
SpawnDraws == {SmallFilled, SmallOutline, MediumOutline}
DropDraws == {Slowest, MediumOutline}
FallDraws == {MediumFilled, MediumOutline}

\* a re-roll of the twinkle (lines 336-337): phase and delay to the next one
TwinkleDraws == { [phase |-> 2, delay |-> (15 * UnitsPerSecond) \div 100] }
FallTwinkles == { [phase |-> 1, delay |-> (6 * UnitsPerSecond) \div 10] }

\* line 410: random.choice(MESSAGES); line 412: random.uniform(0.8, 2.2)
MsgDraws == { [msg |-> 6, gap |-> (8 * UnitsPerSecond) \div 10] }

\* the time the work of one frame takes: none, or as long as the whole ramp
\* (the latter only in the first iteration, while the clock is below SlowUntil)
LongFrame == ramp_duration
SlowUntil == intro_total + frame_time

(***************************************************************************)
(* main: the terminal, entry and exit (lines 298-301, 420-426).            *)
(***************************************************************************)
\* lines 299-300
enter_alt_screen(t) == [t EXCEPT !.altScreen = TRUE, !.cursorHidden = TRUE]

\* lines 420-422: the except clause writes the exit message
except_clause_restores(t) ==
    [t EXCEPT !.exitMsgs = @ + 1, !.cursorHidden = FALSE, !.altScreen = FALSE,
              !.teardowns = @ + 1]
except_clause(t) == [t EXCEPT !.exitMsgs = @ + 1]

\* lines 423-426: the finally clause restores cursor and screen
finally_clause(t) ==
    [t EXCEPT !.cursorHidden = FALSE, !.altScreen = FALSE, !.teardowns = @ + 1]

TryPcs == {"intro", "advance", "cull", "spawn", "render", "pace"}
LoopPcs == {"advance", "cull", "spawn", "render", "pace"}

\* main's locals before the try block and after main has returned
NoLocals ==
    /\ now = 0 /\ last = 0 /\ intro_start = 0 /\ anim_start = 0 /\ msg_index = 0
    /\ hearts = <<>> /\ width = 0 /\ height = 0 /\ spawn_chance_per_col = 0
    /\ current_msg = <<>> /\ next_msg_time = 0 /\ ticks = 0 /\ gone = <<>>
    /\ phases = <<>>

NoPure == arg = <<>> /\ res = <<>> /\ called = FALSE

Init ==
    /\ pc = "start"
    /\ term = [altScreen |-> FALSE, cursorHidden |-> FALSE, teardowns |-> 0,
               exitMsgs |-> 0]
    /\ exc = "none" /\ raisedAt = "none"
    /\ clock = 0
    /\ NoLocals
    /\ NoPure

loopVars == <<now, last, intro_start, anim_start, msg_index, hearts, width, height,
              spawn_chance_per_col, current_msg, next_msg_time, ticks, gone, phases>>

\* lines 282-300
Start ==
    /\ pc = "start"
    /\ term' = enter_alt_screen(term)
    /\ pc' = "entered"
    /\ UNCHANGED <<exc, raisedAt, clock, loopVars, pureVars>>

\* lines 301-306
EnterTry ==
    /\ pc = "entered"
    /\ intro_start' = clock
    /\ msg_index' = 0
    /\ last' = clock
    /\ pc' = "intro"
    /\ UNCHANGED <<term, exc, raisedAt, clock, now, anim_start, hearts, width,
                   height, spawn_chance_per_col, current_msg, next_msg_time, ticks,
                   phases, gone, pureVars>>

\* line 313: the message of an intro frame
intro_msg(elapsed, index) ==
    LET dots == ((elapsed * 3) \div UnitsPerSecond) % 4
    IN  Choice(MESSAGES, index + 1) \o [i \in 1..dots |-> "."]

\* lines 307-317: one iteration of the intro loop that does not break; the
\* frame written is draw_frame(<<>>, intro_msg(now - intro_start, msg_index), size)
IntroTick ==
    /\ pc = "intro"
    /\ clock - intro_start < intro_total
    /\ now' = clock
    /\ msg_index' = msg_index + (IF 10 * (clock - last) > 6 * UnitsPerSecond THEN 1 ELSE 0)
    /\ last' = clock
    /\ clock' = clock + frame_time
    /\ UNCHANGED <<pc, term, exc, raisedAt, intro_start, anim_start, hearts, width,
                   height, spawn_chance_per_col, current_msg, next_msg_time, ticks,
                   phases, gone, pureVars>>

\* lines 308-310 and 320-321: the intro loop breaks and the main loop is set up
IntroEnd ==
    /\ pc = "intro"
    /\ clock - intro_start >= intro_total
    /\ now' = clock
    /\ anim_start' = clock
    /\ last' = clock
    /\ pc' = "advance"
    /\ UNCHANGED <<term, exc, raisedAt, clock, intro_start, msg_index, hearts,
                   width, height, spawn_chance_per_col, current_msg, next_msg_time,
                   ticks, phases, gone, pureVars>>

\* lines 331-337 for one heart: the step, then the twinkle on the re-roll `roll`
Twinkle_keeps_schedule(h, t, roll) ==
    IF t >= h.twinkle_next THEN [h EXCEPT !.twinkle_phase = roll.phase] ELSE h
Twinkle(h, t, roll) ==
    IF t >= h.twinkle_next
    THEN [h EXCEPT !.twinkle_phase = roll.phase, !.twinkle_next = t + roll.delay]
    ELSE h

\* the history fields of a heart that is stepped
Aged(h) == [h EXCEPT !.age = @ + 1, !.exact = ExactAdd(@, h.speed)]

\* line 340
Culled_past_grid(hs, hgt) == SelectSeq(hs, LAMBDA h : LessThanInt(h.y, hgt + 2))
Culled_le(hs, hgt) == SelectSeq(hs, LAMBDA h : LessThanInt(h.y, hgt + 1))
Culled(hs, hgt) == SelectSeq(hs, LAMBDA h : LessThanInt(h.y, hgt))

\* lines 322-337: loop head, clock and size readings, step of every heart
Advance(maxTicks, twinkles) ==
    /\ pc = "advance"
    /\ ticks < maxTicks
    /\ ticks' = ticks + 1
    /\ now' = clock
    /\ last' = clock
    /\ \E size \in TermSizes :
          /\ width' = get_size(size)[1]
          /\ height' = get_size(size)[2]
    /\ \E rolls \in [1..Len(hearts) -> twinkles] :
          hearts' = [i \in 1..Len(hearts) |->
                        Twinkle(Aged(step(hearts[i])), clock, rolls[i])]
    /\ gone' = <<>>
    /\ phases' = <<"advance">>
    /\ pc' = "cull"
    /\ UNCHANGED <<term, exc, raisedAt, clock, intro_start, anim_start,
                   msg_index, spawn_chance_per_col, current_msg, next_msg_time,
                   pureVars>>

\* lines 339-340
Cull ==
    /\ pc = "cull"
    /\ hearts' = Culled(hearts, height)
    /\ gone' = SelectSeq(hearts, LAMBDA h : \A i \in 1..Len(hearts') : hearts'[i] # h)
    /\ phases' = Append(phases, "cull")
    /\ pc' = "spawn"
    /\ UNCHANGED <<term, exc, raisedAt, clock, now, last, intro_start,
                   anim_start, msg_index, width, height, spawn_chance_per_col,
                   current_msg, next_msg_time, ticks, pureVars>>

\* lines 342-405: the ramp and one spawn-planning pass over all columns
SpawnPlan(cols, kinds) ==
    /\ pc = "spawn"
    /\ LET chance == SpawnChance(now - anim_start)
       IN  /\ spawn_chance_per_col' = chance
           /\ \E d \in [cols -> DrawValues] :
                LET lucky == {c \in cols : c < width /\ Spawns(d[c], chance)}
                    draws == [c \in range(width) |->
                                IF c \in cols THEN d[c] ELSE ProbDen - 1]
                IN  /\ Len(hearts) + Cardinality(lucky) <= MaxHearts
                    /\ \E rnds \in [lucky -> kinds] :
                          hearts' = SpawnPass(hearts, 0, width, chance, draws, rnds,
                                              now, ticks)
    /\ phases' = Append(phases, "spawn")
    /\ pc' = "render"
    /\ UNCHANGED <<term, exc, raisedAt, clock, now, last, intro_start,
                   anim_start, msg_index, width, height, current_msg, next_msg_time,
                   ticks, gone, pureVars>>

\* lines 407-414: message rotation, then draw_frame(hearts, current_msg), which
\* reads the terminal size itself and writes the buffer draw_frame(hearts',
\* current_msg', size), a function of its arguments (see SpecDraw); the frame
\* takes `work` to compose and write
Render(works) ==
    /\ pc = "render"
    /\ \E m \in MsgDraws :
          /\ current_msg' = IF clock >= next_msg_time THEN Choice(MESSAGES, m.msg)
                            ELSE current_msg
          /\ next_msg_time' = IF clock >= next_msg_time
                              THEN clock + msg_duration + m.gap
                              ELSE next_msg_time
    /\ hearts' = [i \in 1..Len(hearts) |-> [hearts[i] EXCEPT !.shown = @ + 1]]
    /\ \E work \in works :
          /\ work = 0 \/ clock < SlowUntil
          /\ clock' = clock + work
    /\ phases' = Append(phases, "render")
    /\ pc' = "pace"
    /\ UNCHANGED <<term, exc, raisedAt, now, last, intro_start, anim_start, msg_index,
                   width, height, spawn_chance_per_col, ticks, gone, pureVars>>

\* lines 416-419
Pace ==
    /\ pc = "pace"
    /\ LET sleep_left == frame_time - (clock - now)
       IN  clock' = IF sleep_left > 0 THEN clock + sleep_left ELSE clock
    /\ pc' = "advance"
    /\ UNCHANGED <<term, exc, raisedAt, loopVars, pureVars>>

\* main returns or is left by an exception: its locals are gone
Returned(t) ==
    /\ pc' = "done"
    /\ term' = t
    /\ now' = 0 /\ last' = 0 /\ intro_start' = 0 /\ anim_start' = 0 /\ msg_index' = 0
    /\ hearts' = <<>> /\ width' = 0 /\ height' = 0 /\ spawn_chance_per_col' = 0
    /\ current_msg' = <<>> /\ next_msg_time' = 0 /\ ticks' = 0 /\ gone' = <<>>
    /\ phases' = <<>>
    /\ UNCHANGED <<clock, pureVars>>

\* KeyboardInterrupt raised inside the try block (lines 301-419): the except
\* clause, then the finally clause, then main returns
Interrupt ==
    /\ pc \in TryPcs
    /\ exc' = "KeyboardInterrupt"
    /\ raisedAt' = pc
    /\ Returned(finally_clause(except_clause(term)))

\* KeyboardInterrupt raised at line 300, after the terminal was switched and
\* before the try block is entered: no clause of main handles it
InterruptBeforeTry ==
    /\ pc = "entered"
    /\ exc' = "KeyboardInterrupt"
    /\ raisedAt' = pc
    /\ Returned(term)

\* any other exception raised inside the try block (a failed write of
\* draw_frame, say): the finally clause, then the exception leaves main
Fail ==
    /\ pc \in TryPcs
    /\ exc' = "Exception"
    /\ raisedAt' = pc
    /\ Returned(finally_clause(term))

\* The program with lucky columns at both edges and three kinds of heart, for MaxTicks
\* iterations of the main loop.
Next ==
    \/ Start \/ EnterTry \/ IntroTick \/ IntroEnd
    \/ Advance(MaxTicks, TwinkleDraws) \/ Cull \/ SpawnPlan(LuckyCols, SpawnDraws)
    \/ Render({0, LongFrame}) \/ Pace
    \/ Interrupt \/ InterruptBeforeTry \/ Fail

Spec == Init /\ [][Next]_vars

\* The program on one column, with the medium hearts, for FallTicks
\* iterations: long enough for a heart to fall off a grid of the minimum height.
NextFall ==
    \/ Start \/ EnterTry \/ IntroTick \/ IntroEnd
    \/ Advance(FallTicks, FallTwinkles) \/ Cull \/ SpawnPlan(FallCols, FallDraws)
    \/ Render({0, LongFrame}) \/ Pace
    \/ Interrupt \/ InterruptBeforeTry \/ Fail

SpecFall == Init /\ [][NextFall]_vars

\* The program on one column, with both re-rolls of the twinkle and the
\* shortest and the longest delay to the first one, for TwinkleTicks
\* iterations.  The loop of lines 322-419 goes on to its next statement
\* unless an exception leaves it.
NextTwinkle ==
    \/ Start \/ EnterTry \/ IntroTick \/ IntroEnd
    \/ Advance(TwinkleTicks, TwinkleDraws \cup FallTwinkles) \/ Cull
    \/ SpawnPlan(FallCols, {SmallFilled, MediumOutline})
    \/ Render({0}) \/ Pace
    \/ Interrupt \/ InterruptBeforeTry \/ Fail

SpecTwinkle ==
    /\ Init /\ [][NextTwinkle]_vars
    /\ WF_vars(Advance(TwinkleTicks, TwinkleDraws \cup FallTwinkles) \/ Cull
                  \/ SpawnPlan(FallCols, {SmallFilled, MediumOutline})
                  \/ Render({0}) \/ Pace)

\* The program on one column whose draw is lucky in the first two iterations
\* only, with the slowest heart there is (speed 0.06, the lower end of line
\* 378) and the fastest, for DropTicks iterations: long enough for the
\* slowest heart to fall off a grid 20 rows high.
DropCols == IF ticks <= 2 THEN FallCols ELSE {}

NextDrop ==
    \/ Start \/ EnterTry \/ IntroTick \/ IntroEnd
    \/ Advance(DropTicks, FallTwinkles) \/ Cull \/ SpawnPlan(DropCols, DropDraws)
    \/ Render({0}) \/ Pace
    \/ Interrupt \/ InterruptBeforeTry \/ Fail

SpecDrop ==
    /\ Init /\ [][NextDrop]_vars
    /\ WF_vars(Advance(DropTicks, FallTwinkles) \/ Cull \/ SpawnPlan(DropCols, DropDraws)
                  \/ Render({0}) \/ Pace)

(***************************************************************************)
(* The pure functions on their own: Init draws the arguments, the one      *)
(* action applies the function.  main has not started.                     *)
(***************************************************************************)
NotStarted(f) ==
    /\ pc = f
    /\ term = [altScreen |-> FALSE, cursorHidden |-> FALSE, teardowns |-> 0,
               exitMsgs |-> 0]
    /\ exc = "none" /\ raisedAt = "none"
    /\ clock = 0
    /\ NoLocals
    /\ res = <<>> /\ called = FALSE

\* lines 342-348 on an elapsed time of up to twice the ramp
ElapsedValues == 0 .. (2 * ramp_duration)

InitRamp == NotStarted("ramp") /\ arg \in ElapsedValues

Ramp ==
    /\ pc = "ramp" /\ ~called
    /\ res' = SpawnChance(arg)
    /\ called' = TRUE
    /\ UNCHANGED <<arg, mainVars>>

SpecRamp == InitRamp /\ [][Ramp]_vars

\* hearts_overlap on two hearts of which only the box matters
BoxYs == { Whole(0), Dbl(0, LoMod, 0), Whole(1), Dbl(2, LoMod, 0) }
BoxHeart(x, y, w, h) ==
    Heart(x, y, <<>>, Whole(0), "small", "filled", <<>>, w, h, 0, 0)
Boxes ==
    { BoxHeart(x, y, w, h) : x \in (-1)..MaxBox, y \in BoxYs, w \in 0..MaxBox,
                             h \in 0..MaxBox }

InitOverlap == NotStarted("overlap") /\ arg \in Boxes \X Boxes

Overlap ==
    /\ pc = "overlap" /\ ~called
    /\ res' = [ab |-> hearts_overlap(arg[1], arg[2]),
               ba |-> hearts_overlap(arg[2], arg[1]),
               aa |-> hearts_overlap(arg[1], arg[1])]
    /\ called' = TRUE
    /\ UNCHANGED <<arg, mainVars>>

SpecOverlap == InitOverlap /\ [][Overlap]_vars

\* draw_frame on lists of up to MaxDrawn hearts: one-cell hearts and a
\* 3 x 2 sprite, on and off the left and right edge of a 20-column grid, at
\* rows -1.5, 0.0, 1.5 and 9.5
DrawSprites == { <<HEARTS_MED[1]>>,
                 << <<" ", "u2665", " ">>, <<"u2665", "u2665", "u2665">> >> }
DrawSpots == { <<-1, Dbl(-2, LoMod, 0)>>, <<0, Whole(0)>>, <<0, Dbl(1, LoMod, 0)>>,
               <<19, Dbl(1, LoMod, 0)>>, <<19, Dbl(9, LoMod, 0)>> }
DrawHearts ==
    { Heart(at[1], at[2], PINKS[1], D_0_2, "medium", "filled", sp, Len(sp[1]), Len(sp),
            1, 0) : at \in DrawSpots, sp \in DrawSprites }
DrawLists == UNION { [1..n -> DrawHearts] : n \in 0..MaxDrawn }

InitDraw ==
    /\ NotStarted("draw")
    /\ arg \in [hearts : DrawLists, msg : {MESSAGES[1]}, size : TermSizes]

Draw ==
    /\ pc = "draw" /\ ~called
    /\ res' = [writes |-> UNION { HeartWrites(arg.hearts[i], get_size(arg.size)[1],
                                              get_size(arg.size)[2]) :
                                    i \in 1..Len(arg.hearts) },
               placed |-> placed_hearts(arg.hearts, arg.size),
               frame |-> draw_frame(arg.hearts, arg.msg, arg.size)]
    /\ called' = TRUE
    /\ UNCHANGED <<arg, mainVars>>

SpecDraw == InitDraw /\ [][Draw]_vars

(***************************************************************************)
(* Properties.                                                             *)
(***************************************************************************)
NoOverlap(hs) ==
    \A i, j \in 1..Len(hs) : i # j => ~hearts_overlap(hs[i], hs[j])

\* C1: a spawn-planning pass that starts with no two live hearts overlapping
\* ends with no two distinct live hearts overlapping, hearts spawned in the
\* same pass included.
C1_pass_keeps_hearts_apart ==
    [][(pc = "spawn" /\ pc' = "render" /\ NoOverlap(hearts)) => NoOverlap(hearts')]_vars

\* a pass has just added two hearts, and one to a heart that was there
C1_two_spawned_in_one_pass ==
    /\ pc = "render"
    /\ Len(hearts) = 2
    /\ hearts[1].born = ticks /\ hearts[2].born = ticks
    /\ NoOverlap(hearts)

\* C2: a KeyboardInterrupt raised at any position of the intro loop or of
\* the main loop ends main with the teardown sequence written exactly once;
\* it is never written a second time.
C2_one_teardown_on_interrupt ==
    /\ term.teardowns <= 1
    /\ (pc = "done" /\ exc = "KeyboardInterrupt" /\ raisedAt \in TryPcs)
          => term.teardowns = 1

C2_interrupted_in_main_loop ==
    /\ pc = "done" /\ exc = "KeyboardInterrupt" /\ raisedAt = "render"
    /\ term.teardowns = 1 /\ term.exitMsgs = 1

\* C3: whenever main has ended, the cursor is shown and the alternate screen
\* is off.
C3_terminal_restored_on_every_exit ==
    pc = "done" => (~term.altScreen /\ ~term.cursorHidden)

\* main has ended with the terminal still switched and no teardown written
C3_left_switched ==
    /\ pc = "done" /\ exc = "KeyboardInterrupt" /\ raisedAt = "entered"
    /\ term.altScreen /\ term.cursorHidden /\ term.teardowns = 0

Ident(h) == <<h.born, h.x>>
Idents(hs) == { Ident(hs[i]) : i \in 1..Len(hs) }

\* C4: the cull keeps exactly the hearts whose top row is above the bottom of
\* the grid, in order; no other step of the loop removes a heart, and a heart
\* that enters the list is a new one, so a culled heart never comes back.
C4_cull_by_top_row ==
    [][/\ (pc = "cull" /\ pc' = "spawn")
            => hearts' = SelectSeq(hearts, LAMBDA h : IntOf(h.y) < height)
       /\ (pc \in LoopPcs /\ pc # "cull" /\ pc' \in LoopPcs)
            => Idents(hearts) \subseteq Idents(hearts')
       /\ (pc' \in LoopPcs)
            => \A j \in 1..Len(hearts') :
                  \/ Ident(hearts'[j]) \in Idents(hearts)
                  \/ (pc = "spawn" /\ hearts'[j].born = ticks /\ hearts'[j].age = 0)
      ]_vars

\* a cull has just removed a heart at the bottom and kept another
C4_one_culled_one_kept ==
    /\ pc = "spawn"
    /\ Len(gone) = 1 /\ IntOf(gone[1].y) >= height
    /\ Len(hearts) = 1 /\ IntOf(hearts[1].y) < height /\ hearts[1].age > 0

\* C5: the spawn chance lies between 0 and the target; from the ramp duration
\* on it is the target; before, it is target * elapsed / ramp_duration.
C5_ramp_is_clamped ==
    called =>
        /\ 0 <= res /\ res <= target_spawn_chance_per_col
        /\ arg >= ramp_duration => res = target_spawn_chance_per_col
        /\ arg < ramp_duration => res * ramp_duration = target_spawn_chance_per_col * arg

C5_past_the_ramp ==
    called /\ arg > ramp_duration /\ res = target_spawn_chance_per_col

\* C6: hearts_overlap gives the same answer for (A, B) and (B, A), and TRUE
\* for (A, A).
C6_overlap_symmetric_reflexive ==
    called => (res.ab = res.ba /\ res.aa)

\* two different boxes, one of them empty, that touch only at an edge
C6_touching_boxes ==
    /\ called /\ res.ab /\ res.ba
    /\ arg[1].w = 0 /\ arg[2].w > 0
    /\ arg[1].x - (arg[1].w \div 2) = arg[2].x - (arg[2].w \div 2) + arg[2].w

\* C7: a spawn-planning pass at elapsed time 0 computes the chance 0 and
\* leaves the live list as it was, whatever the width and the draws.
C7_no_spawn_at_time_zero ==
    [][(pc = "spawn" /\ pc' = "render" /\ now = anim_start)
          => (spawn_chance_per_col' = 0 /\ hearts' = hearts)]_vars

C7_first_pass_done ==
    /\ pc = "render" /\ now = anim_start /\ ticks = 1 /\ width = 40
    /\ spawn_chance_per_col = 0 /\ hearts = <<>>

\* a <= b for two reals in limb form
LeqDbl(a, b) ==
    \/ a.i < b.i
    \/ a.i = b.i /\ a.hi < b.hi
    \/ a.i = b.i /\ a.hi = b.hi /\ a.lo <= b.lo

\* half a unit in the last place of the doubles below 32, in units of 2^-57
HalfUlp == Pow2(8)

\* the heart of the example: column 10, velocity 0.2, stepped 10 times
IsExample(h) == h.x = 10 /\ h.speed = D_0_2 /\ h.age = 10

\* C8 as stated: the position of a heart stepped n times is 2 + n * v: the
\* double nearest to it, and 4.0 for the heart of the example.
C8_position_exact ==
    \A i \in 1..Len(hearts) :
        /\ hearts[i].y = RoundDouble(hearts[i].exact)
        /\ IsExample(hearts[i]) => hearts[i].y = Whole(4)

\* C8, amended: the position of a heart starts at 2.0 and changes only by one
\* rounded addition of v in each advance, whatever the clock did; after n
\* ticks it differs from 2 + n * v by at most n half units in the last place,
\* and after every cull the top row of a live heart is above the bottom of the
\* grid.  The heart of the example is at 4.000000000000002, top row 4.
C8_position_accumulated ==
    /\ [](\A i \in 1..Len(hearts) :
            LET h == hearts[i]
                slack == Dbl(0, 0, h.age * HalfUlp)
            IN  /\ LeqDbl(h.y, ExactAdd(h.exact, slack))
                /\ LeqDbl(h.exact, ExactAdd(h.y, slack))
                /\ pc \in {"spawn", "render", "pace"} => IntOf(h.y) < height
                /\ IsExample(h) => (h.y = Dbl(4, 0, 256) /\ IntOf(h.y) = 4))
    /\ [][\A j \in 1..Len(hearts') :
            LET h == hearts'[j]
            IN  IF h.age = 0 THEN h.y = Whole(2)
                ELSE \E i \in 1..Len(hearts) :
                        /\ Ident(hearts[i]) = Ident(h)
                        /\ \/ h.age = hearts[i].age /\ h.y = hearts[i].y
                           \/ /\ pc = "advance" /\ h.age = hearts[i].age + 1
                              /\ h.y = AddDouble(hearts[i].y, h.speed)]_vars

\* the heart of the example on a 40 x 20 grid, after its tenth step and the
\* cull that follows it, in a run whose first frame took as long as the ramp
C8_example_after_ten_ticks ==
    /\ pc = "spawn" /\ width = 40 /\ height = 20
    /\ clock > anim_start + LongFrame
    /\ \E i \in 1..Len(hearts) : IsExample(hearts[i]) /\ hearts[i].y # hearts[i].exact

Order == <<"advance", "cull", "spawn", "render">>

\* C9 as stated: the phases of an iteration run in the order spawn planning,
\* advance, cull, render, and a heart that has been rendered has been
\* advanced before.
C9_spawn_first ==
    /\ pc \in LoopPcs =>
          phases = SubSeq(<<"spawn", "advance", "cull", "render">>, 1, Len(phases))
    /\ \A i \in 1..Len(hearts) : hearts[i].shown >= 1 => hearts[i].age >= 1

\* C9, amended: the phases run in the order advance, cull, spawn planning,
\* render; a heart is first rendered in the iteration that spawned it, at
\* 2.0 and not yet advanced, and is advanced from the next iteration on.
C9_advance_cull_spawn_render ==
    /\ pc \in LoopPcs => phases = SubSeq(Order, 1, Len(phases))
    /\ pc = "pace" => phases = Order
    /\ \A i \in 1..Len(hearts) :
          LET h == hearts[i]
          IN  /\ h.born = ticks => (h.age = 0 /\ h.y = Whole(2))
              /\ h.born < ticks /\ pc # "advance" => h.age = ticks - h.born
              /\ pc = "pace" => h.shown = h.age + 1

\* a heart rendered in the iteration that spawned it
C9_rendered_unadvanced ==
    /\ pc = "pace" /\ phases = Order
    /\ \E i \in 1..Len(hearts) :
          hearts[i].born = ticks /\ hearts[i].shown = 1 /\ hearts[i].age = 0

\* C10: draw_frame assigns a heart cell only at rows 2 <= r < height and
\* columns 0 <= c < width, and rows 0 and 1 of the buffer hold no heart cell
\* when the HUD is written.
C10_hearts_below_hud ==
    called =>
        LET w == get_size(arg.size)[1]
            h == get_size(arg.size)[2]
        IN  /\ \A wr \in res.writes : 2 <= wr[1] /\ wr[1] < h /\ 0 <= wr[2] /\ wr[2] < w
            /\ \A r \in range(h) : \A c \in range(w) :
                  Len(res.placed[r][c]) > 1 => <<r, c>> \in res.writes
            /\ \A c \in range(w) : res.placed[0][c] = <<" ">> /\ res.placed[1][c] = <<" ">>

\* a sprite whose first row falls on row 1 and whose second row is drawn
C10_sprite_cut_at_row_one ==
    /\ called
    /\ \E i \in 1..Len(arg.hearts) :
          /\ IntOf(arg.hearts[i].y) = 1 /\ arg.hearts[i].h = 2
          /\ \E wr \in res.writes : wr[1] = 2
    /\ \E i \in 1..Len(arg.hearts) : IntOf(arg.hearts[i].y) < 0

(***************************************************************************)
(* mask_to_sprite on its own: every mask of up to MaxMaskRows rows and up   *)
(* to two columns over three coverages, in both styles.                    *)
(***************************************************************************)
CovValues == { <<0, 16>>, <<4, 16>>, <<16, 16>> }
MaskWidths == {0, 1, 2}
Masks == UNION { [1..h -> [1..w -> CovValues]] : w \in MaskWidths, h \in 0..MaxMaskRows }

Styles == {"filled", "outline"}
InitSprite ==
    /\ NotStarted("sprite")
    /\ arg \in [mask : Masks, style : Styles]
                \cup [size : {"small", "medium", "large"}, style : Styles]

Sprite ==
    /\ pc = "sprite" /\ ~called /\ "mask" \in DOMAIN arg
    /\ res' = mask_to_sprite(arg.mask, arg.style)
    /\ called' = TRUE
    /\ UNCHANGED <<arg, mainVars>>

MakeHeartSprite ==
    /\ pc = "sprite" /\ ~called /\ "size" \in DOMAIN arg
    /\ res' = make_heart_sprite(arg.size, arg.style)
    /\ called' = TRUE
    /\ UNCHANGED <<arg, mainVars>>

NextSprite == Sprite \/ MakeHeartSprite

SpecSprite == InitSprite /\ [][NextSprite]_vars

\* C11: the sprite of a mask, and of each of the three size classes, has no
\* blank first row and no blank last row, and all its rows have the same
\* length; a mask all of whose cells are transparent in the style gives the
\* empty sprite.
C11_sprite_trimmed_and_padded ==
    called =>
        /\ res # <<>> => (~IsBlank(res[1]) /\ ~IsBlank(res[Len(res)]))
        /\ \A i, j \in 1..Len(res) : Len(res[i]) = Len(res[j])
        /\ "mask" \in DOMAIN arg =>
              ((\A r \in 1..Len(arg.mask) : \A c \in 1..Len(arg.mask[r]) :
                    char_from_coverage(arg.mask[r][c], arg.style) = " ") => res = <<>>)
        /\ "size" \in DOMAIN arg => res # <<>>

\* a mask with a blank first and last row whose two middle rows are kept,
\* the shorter one padded
C11_trimmed_both_ends_and_padded ==
    /\ called /\ "mask" \in DOMAIN arg /\ Len(arg.mask) = 4 /\ Len(res) = 2
    /\ Len(res[1]) = 2 /\ res[1][2] = " " /\ res[2][2] # " "

(***************************************************************************)
(* heart_mask on its own: every size from 5 x 5 to MaxSide x MaxSide and    *)
(* the sizes of the three classes.                                         *)
(***************************************************************************)
MaskSizes == ((5..MaxSide) \X (5..MaxSide)) \cup { <<9, 8>>, <<13, 11>>, <<17, 15>> }

InitMask == NotStarted("mask") /\ arg \in MaskSizes

Mask ==
    /\ pc = "mask" /\ ~called
    /\ res' = heart_mask(arg[1], arg[2])
    /\ called' = TRUE
    /\ UNCHANGED <<arg, mainVars>>

SpecMask == InitMask /\ [][Mask]_vars

\* the indices (from 0) of the cells nearest the middle of n cells
Middle(n) == { (n - 1) \div 2, n \div 2 }

\* C12: in the mask of a size of at least 5 x 5 the cells nearest the centre
\* of the grid have a coverage above 0, and every coverage is a count of
\* 0..ss*ss subsamples over ss*ss.
C12_centre_covered ==
    called =>
        /\ \A r \in Middle(arg[2]) : \A c \in Middle(arg[1]) : res[r + 1][c + 1][1] > 0
        /\ Len(res) = arg[2]
        /\ \A r \in 1..arg[2] :
              /\ Len(res[r]) = arg[1]
              /\ \A c \in 1..arg[1] :
                    /\ res[r][c][2] = (IF arg[1] <= 9 THEN 16 ELSE 9)
                    /\ 0 <= res[r][c][1] /\ res[r][c][1] <= res[r][c][2]

\* the mask of the largest class: covered in the middle, empty in a corner
C12_large_class ==
    /\ called /\ arg = <<17, 15>>
    /\ res[8][9][1] = 9 /\ res[15][1][1] = 0

\* the heart spawned in iteration b is live
Live(b) == \E i \in 1..Len(hearts) : hearts[i].born = b

\* the heart spawned in iteration b is re-rolled by the iteration that starts now
RollDue(b) ==
    /\ pc = "advance"
    /\ \E i \in 1..Len(hearts) : hearts[i].born = b /\ clock >= hearts[i].twinkle_next

\* the iterations whose hearts are followed: the first that can spawn one
\* (the chance is 0 in iteration 1) and a later one
TwinkleBorn == {2, 3}

\* the iterations it takes at most until a re-roll is due: 0.7 s of frames
RollWait == ((7 * UnitsPerSecond) \div 10) \div frame_time + 1

\* C13: the twinkle phase and twinkle_next of a live heart change only in a
\* step of the hearts with now >= twinkle_next; that step sets twinkle_next
\* to now + a delay of 0.15 s to 0.6 s; with now < twinkle_next both stay;
\* and a heart that stays live is due for a re-roll again after at most
\* RollWait iterations.
C13_twinkle_on_schedule ==
    /\ [][\A i \in 1..Len(hearts) : \A j \in 1..Len(hearts') :
            Ident(hearts[i]) = Ident(hearts'[j]) =>
                IF pc = "advance" /\ now' >= hearts[i].twinkle_next
                THEN /\ hearts'[j].twinkle_next > now'
                     /\ 100 * (hearts'[j].twinkle_next - now') >= 15 * UnitsPerSecond
                     /\ 10 * (hearts'[j].twinkle_next - now') <= 6 * UnitsPerSecond
                ELSE /\ hearts'[j].twinkle_phase = hearts[i].twinkle_phase
                     /\ hearts'[j].twinkle_next = hearts[i].twinkle_next]_vars
    /\ \A b \in TwinkleBorn :
          (Live(b) /\ ticks <= TwinkleTicks - RollWait) ~> (RollDue(b) \/ ~Live(b))

\* a small heart, first re-rolled when stepped for the second time, is
\* re-rolled again
C13_rolled_twice ==
    /\ pc = "cull"
    /\ \E i \in 1..Len(hearts) :
          /\ hearts[i].twinkle_phase = 1
          /\ hearts[i].twinkle_next = now + (6 * UnitsPerSecond) \div 10
          /\ hearts[i].size = "small" /\ hearts[i].age >= 5

\* a < b for doubles
LessDbl(a, b) == LeqDbl(a, b) /\ a # b

\* C14: every live heart has a speed above 0; a heart that stays in the list
\* keeps speed, x, sprite, w, h, size, style and color across every step; the
\* step of the hearts makes its y strictly greater and no other step changes y.
C14_only_fall_and_twinkle ==
    /\ [](\A i \in 1..Len(hearts) : LessDbl(Whole(0), hearts[i].speed))
    /\ [][\A i \in 1..Len(hearts) : \A j \in 1..Len(hearts') :
            Ident(hearts[i]) = Ident(hearts'[j]) =>
                /\ hearts'[j].speed = hearts[i].speed
                /\ hearts'[j].x = hearts[i].x
                /\ hearts'[j].sprite = hearts[i].sprite
                /\ hearts'[j].w = hearts[i].w /\ hearts'[j].h = hearts[i].h
                /\ hearts'[j].size = hearts[i].size
                /\ hearts'[j].style = hearts[i].style
                /\ hearts'[j].color = hearts[i].color
                /\ IF pc = "advance"
                   THEN LessDbl(hearts[i].y, hearts'[j].y)
                   ELSE hearts'[j].y = hearts[i].y]_vars

\* a heart that was stepped several times and re-rolled
C14_stepped_and_rerolled ==
    \E i \in 1..Len(hearts) :
        /\ hearts[i].age = 3 /\ hearts[i].twinkle_phase = 1
        /\ hearts[i].y = AddDouble(AddDouble(AddDouble(Whole(2), D_0_2), D_0_2), D_0_2)

\* the box of the candidate of column c: every glyph of the pools is one
\* cell wide and the sprite is one row, at y = 2.0
Candidate(c) == NewHeart(c, now, ticks, SmallFilled)

\* the hearts a spawn-planning pass has added
Added == (Len(hearts) + 1)..Len(hearts')

\* C15: a spawn-planning pass keeps the live hearts as they are, in place,
\* and appends to them; the hearts it appends are in different columns, in
\* the order of the columns, and each overlaps no heart before it in the
\* list; a column whose candidate overlaps a live heart gets none (a heart
\* is added only in a column whose candidate overlaps no live heart).
C15_one_attempt_per_column ==
    [][(pc = "spawn" /\ pc' = "render") =>
         /\ Len(hearts') >= Len(hearts)
         /\ SubSeq(hearts', 1, Len(hearts)) = hearts
         /\ \A j \in Added :
               /\ hearts'[j].born = ticks
               /\ hearts'[j].y = Whole(2)
               /\ \A k \in 1..(j - 1) : ~hearts_overlap(hearts'[j], hearts'[k])
               /\ \A k \in Added : k < j => hearts'[k].x < hearts'[j].x
         /\ \A j \in Added : \A i \in 1..Len(hearts) :
               ~hearts_overlap(Candidate(hearts'[j].x), hearts[i])]_vars

\* a column that was blocked by its heart for some passes spawns a second one
C15_column_spawns_again ==
    /\ pc = "render"
    /\ \E i, j \in 1..Len(hearts) :
          /\ hearts[i].x = hearts[j].x
          /\ hearts[i].born < ticks /\ hearts[j].born = ticks

(***************************************************************************)
(* Row 0 of the frame on its own: draw_frame on no hearts and no message,  *)
(* on every terminal width from 1 to MaxWidth.                             *)
(***************************************************************************)
InitHud == NotStarted("hud") /\ arg \in 1..MaxWidth

Hud ==
    /\ pc = "hud" /\ ~called
    /\ LET w == get_size(<<arg, 10>>)[1]
           frame == draw_frame(<<>>, <<>>, <<arg, 10>>)
       IN  res' = [width |-> w, row |-> [i \in 1..w |-> frame[0][i - 1][1]]]
    /\ called' = TRUE
    /\ UNCHANGED <<arg, mainVars>>

SpecHud == InitHud /\ [][Hud]_vars

\* line 261: the title, coloured, and the exit hint
full_hud_text ==
    <<"ESC", "[", "9", "6", "m">> \o title \o RESET \o <<" ", " ", "|", " ", " ">>
        \o exit_hint

\* row 0 holds `text` from column 0 on and blanks after it
RowHolds(text) ==
    /\ Len(text) <= res.width
    /\ res.row = text \o Spaces(res.width - Len(text))

\* C16: row 0 holds the full text (title and exit hint) when all of it fits
\* within the width, and the exit hint alone otherwise.
C16_full_text_only_when_it_fits ==
    called =>
        IF Len(full_hud_text) <= res.width
        THEN RowHolds(full_hud_text)
        ELSE RowHolds(exit_hint)

\* the full text is chosen on a width that cuts its exit hint
C16_exit_hint_cut ==
    /\ called /\ res.width = 58
    /\ res.row = SubSeq(full_hud_text, 1, 58)
    /\ res.row[58] = "r"

CullBound(hgt) == ((hgt - 2) * 100 + 5) \div 6

\* C18 as stated: a heart is culled after at most ceil((height - 2) / 0.06)
\* steps, so no heart that has passed the cull of an iteration has been
\* stepped that often.
C18_culled_within_bound ==
    pc # "cull" => \A i \in 1..Len(hearts) : hearts[i].age < CullBound(height)

\* C18, amended: a heart is culled after at most ceil((height - 2) / 0.06) + 1
\* steps, and the heart spawned in iteration 2 is removed from the list.
C18_culled_one_step_later ==
    /\ [](pc # "cull" => \A i \in 1..Len(hearts) : hearts[i].age <= CullBound(height))
    /\ Live(2) ~> ~Live(2)

\* the slowest heart is culled from a grid 20 rows high by its 301st step
C18_slowest_culled ==
    /\ pc = "spawn" /\ height = 20
    /\ \E i \in 1..Len(gone) :
          gone[i].speed = D_0_06 /\ gone[i].age = CullBound(20) + 1

\* |a - b|
Dist(a, b) == IF a < b THEN b - a ELSE a - b

\* C19: two live hearts spawned in the same pass are at least 2 columns
\* apart, and a pass adds no heart in a column when a live heart in that
\* column or a column next to it has its top row in rows 1..3.
C19_spawns_two_columns_apart ==
    /\ [](\A i, j \in 1..Len(hearts) :
              (i # j /\ hearts[i].born = hearts[j].born)
                  => Dist(hearts[i].x, hearts[j].x) >= 2)
    /\ [][(pc = "spawn" /\ pc' = "render") =>
            \A j \in Added : \A i \in 1..Len(hearts) :
                ~(Dist(hearts[i].x, hearts'[j].x) <= 1 /\ IntOf(hearts[i].y) \in 1..3)]_vars

\* a pass spawns hearts in columns 0 and 2, none in column 1 between them
C19_columns_zero_and_two ==
    /\ pc = "render"
    /\ \E i, j \in 1..Len(hearts) :
          /\ hearts[i].born = ticks /\ hearts[j].born = ticks
          /\ hearts[i].x = 0 /\ hearts[j].x = 2

(***************************************************************************)
(* draw_frame on live sets of the main loop: one-glyph hearts spawned on a *)
(* grid up to 40 columns wide and not culled from a grid 10 or 20 rows     *)
(* high, drawn on a grid of the same or the other size, with a message or  *)
(* none.                                                                   *)
(***************************************************************************)
LiveSpots == { <<0, Whole(2), 0>>, <<19, Dbl(9, LoMod, 0), 1>>, <<39, Dbl(2, LoMod, 0), 2>>,
               <<20, Dbl(15, LoMod, 0), 0>>, <<0, Dbl(19, LoMod, 0), 1>> }
LiveHearts ==
    { Heart(at[1], at[2], PINKS[1], D_0_06, "small", "outline", <<ch>>, Len(ch), 1,
            at[3], 0) : at \in LiveSpots, ch \in {HEARTS_SMALL[1], HEARTS_MED[1]} }
LiveLists == UNION { [1..n -> LiveHearts] : n \in 0..MaxDrawn }

InitBounds ==
    /\ NotStarted("bounds")
    /\ arg \in [hearts : LiveLists, msg : {<<>>, MESSAGES[1]}, size : TermSizes]

Bounds ==
    /\ pc = "bounds" /\ ~called
    /\ LET sz == get_size(arg.size)
           frame == draw_frame(arg.hearts, arg.msg, arg.size)
       IN  res' = [width |-> sz[1], height |-> sz[2],
                   reads |-> [i \in 1..Len(arg.hearts) |-> SpriteReads(arg.hearts[i], sz[2])],
                   writes |-> UNION { HeartWrites(arg.hearts[i], sz[1], sz[2]) :
                                        i \in 1..Len(arg.hearts) }
                                 \cup HudWrites(sz[1]) \cup MsgWrites(arg.msg, sz[1]),
                   rows |-> DOMAIN frame,
                   cols |-> { DOMAIN frame[r] : r \in DOMAIN frame }]
    /\ called' = TRUE
    /\ UNCHANGED <<arg, mainVars>>

SpecBounds == InitBounds /\ [][Bounds]_vars

\* C20: draw_frame reads a sprite only at a row below h and a column below
\* w that the sprite has, assigns buffer cells only at rows 0..height-1 and
\* columns 0..width-1, and the frame has height rows of width cells.
C20_accesses_in_bounds ==
    called =>
        /\ \A i \in 1..Len(arg.hearts) : \A rd \in res.reads[i] :
              /\ rd[1] < arg.hearts[i].h /\ rd[1] < Len(arg.hearts[i].sprite)
              /\ rd[2] < arg.hearts[i].w /\ rd[2] < Len(arg.hearts[i].sprite[rd[1] + 1])
        /\ \A wr \in res.writes :
              /\ 0 <= wr[1] /\ wr[1] < res.height
              /\ 0 <= wr[2] /\ wr[2] < res.width
        /\ res.width >= 20 /\ res.height >= 10
        /\ res.rows = range(res.height)
        /\ res.cols = { range(res.width) }

\* a grid of 20 x 10 is drawn with a heart in column 39 and a heart in row
\* 15, live on the grid of 40 x 20 they were spawned and culled on, and with
\* a heart that is written
C20_smaller_grid_than_culled_on ==
    /\ called /\ res.width = 20 /\ res.height = 10 /\ Len(arg.hearts) = 2
    /\ \E i, j \in 1..2 :
          /\ arg.hearts[i].x = 39 /\ res.reads[i] # {}
          /\ IntOf(arg.hearts[j].y) = 15 /\ res.reads[j] = {}
    /\ arg.msg # <<>>
    /\ <<1, 19>> \in res.writes

====
